---------------------------- MODULE Spec2Model ----------------------------
(***************************************************************************)
(* A model of the pixel processing unit (dirtydmg-core/src/ppu.rs) and of  *)
(* the address bus (dirtydmg-core/src/bus.rs) of the DirtyDmg emulator.    *)
(*                                                                         *)
(* The PPU is one record, `ppu', with the fields of `struct PPU'.  Every   *)
(* method of the PPU is an operator from a PPU record (and its arguments)  *)
(* to the PPU record the method leaves behind; the actions at the end      *)
(* apply them to the state.  Bytes are naturals below 256, and u16 values  *)
(* naturals below 65536; every arithmetic step that can leave the width    *)
(* is written with its wrap-around or its abort.                           *)
(***************************************************************************)
EXTENDS Integers, Sequences, FiniteSets, TLC

VARIABLES
    ppu,        \* the PPU: a record with the fields of struct PPU
    bus,        \* Bus.members: the sequence of registered BusItems
    ram,        \* the memory of the RAM devices the bus items refer to
    is,         \* the interrupt requests raised by the last operation
    op,         \* the last operation and its arguments
    staged,     \* <<v>> after a write of v to 0xFF46 that no execute_ticks
                \* call has followed yet, <<>> otherwise
    panicked,   \* TRUE once an operation has aborted (panic!)
    frame       \* the scanline history: since_vblank, the changes of line_y
                \* since the last V-blank request (-1 while none was made);
                \* pass_vblanks, the V-blank requests since line_y was last
                \* set to 0 (by PPU::new or by the frame wrap); last_line
                \* and last_since, line_y and since_vblank before the last
                \* operation

vars == <<ppu, bus, ram, is, op, staged, panicked, frame>>

----------------------------------------------------------------------------
(* Constants of ppu.rs.                                                    *)

TILESET_RAM == 6144
TILESET_COUNT == 384
TILESET_START_ADDRESS == 32768
TILESET_END_ADDRESS == TILESET_START_ADDRESS + TILESET_RAM - 1
TILE_DIMENSION == 8
TILE_SIZE == 16
TILEMAPS_SIZE == 2048
TILEMAP_START_ADDRESS == 38912
TILEMAP_END_ADDRESS == 40959
OAM_SPRITE_COUNT == 40
OAM_SPRITE_SIZE == 4
OAM_RAM_SIZE == OAM_SPRITE_COUNT * OAM_SPRITE_SIZE
OAM_START_ADDRESS == 65024
OAM_END_ADDRESS == OAM_START_ADDRESS + OAM_RAM_SIZE
LCDC_ADDRESS == 65344
LCDS_ADDRESS == 65345
SCY_ADDRESS == 65346
SCX_ADDRESS == 65347
LY_ADDRESS == 65348
LYC_ADDRES == 65349
WY_ADDRESS == 65354
WX_ADDRESS == 65355
OAM_DMA_REGISTER_ADDRESS == 65350
BG_PALETTE_ADDRESS == 65351
OBJ_PALETTE1_ADDRESS == 65352
OBJ_PALETTE2_ADDRESS == 65353

PALLET_ATTRIB_MASK == 16
XFLIP_ATTRIB_MASK == 32
YFLIP_ATTRIB_MASK == 64
BG_PRIORITY_ATTRIB_MASK == 128

LCDC_ENABLE_MASK == 128
LCDC_WINDOW_TILE_MAP_MASK == 64
LCDC_WINDOW_DISPLAY_ENABLE_MASK == 32
LCDC_BG_WINDOW_TILE_MAP_SELECT_MASK == 16
LCDC_BG_TILE_MAP_SELECT_MASK == 8
LCDC_OBJ_SIZE_MASK == 4
LCDC_OBJ_DISPLAY_ENABLE_MASK == 2
LCDC_BG_WINDOW_PRIORITY_MASK == 1

LCDS_LINE_CMP_IS_MASK == 64
LCDS_MODE2_IS_MASK == 32
LCDS_MODE1_IS_MASK == 16
LCDS_MODE0_IS_MASK == 8

OAM_DMA_TRANSFER_TICKS == 160
LCD_TICKS_PER_LINE == 456
LCD_LINE_VBLANK_START == 144
LCD_LINE_VBLANK_END == 153

(* enum Mode, with its discriminants (`self.mode as u8').                  *)
HBLANK == 0
VBLANK == 1
SPRITE_SEARCH == 2
LCD_TRANSFER == 3

----------------------------------------------------------------------------
(* Machine arithmetic.                                                     *)

U8 == 256
U16 == 65536

(* Bit k of v.                                                             *)
Bit(v, k) == (v \div (2 ^ k)) % 2

(* v & m and v | m, bit by bit from the least significant one.            *)
RECURSIVE BitAnd(_, _)
BitAnd(v, m) ==
    IF v = 0 \/ m = 0 THEN 0
    ELSE (v % 2) * (m % 2) + 2 * BitAnd(v \div 2, m \div 2)

BitOr(v, m) == v + m - BitAnd(v, m)

(* !m on a u8.                                                             *)
NotU8(m) == (U8 - 1) - m

(* `b as u8' of a bool.                                                    *)
BoolU8(b) == IF b THEN 1 ELSE 0

----------------------------------------------------------------------------
(* The part of the large memories the model keeps.  Tile RAM and tile-map  *)
(* RAM are arrays whose cells are written one at a time and never read by  *)
(* another cell's write, so the model keeps the tiles and the map cells    *)
(* the operations address and leaves out the others (which stay as         *)
(* PPU::new made them).  OAM is kept whole.                                *)

TileIdx == {0, TILESET_COUNT - 1}
TileOffsets == {t * TILE_SIZE + k : t \in TileIdx, k \in 0..(TILE_SIZE - 1)}
TilemapOffsets == {0, TILEMAPS_SIZE - 1}

----------------------------------------------------------------------------
(* struct Tile                                                             *)

Tile_new == [y \in 0..(TILE_DIMENSION - 1) |-> [x \in 0..(TILE_DIMENSION - 1) |-> 0]]

(* The loop of Tile::update_row: x runs from 7 down to 0, and data is      *)
(* shifted right once per pixel.                                           *)
RECURSIVE update_row_loop(_, _, _, _)
update_row_loop(row, data, x, shift) ==
    IF x < 0 THEN row
    ELSE update_row_loop(
            [row EXCEPT ![x] = BitOr(BitAnd(row[x], NotU8(2 ^ shift)),
                                     (BitAnd(data, 1) * (2 ^ shift)) % U8)],
            data \div 2, x - 1, shift)

(* Tile::update_row with the two bit planes exchanged.                     *)
Tile_update_row_planes_swapped(tile, data, y, msb) ==
    LET shift == IF msb THEN 0 ELSE 1
    IN  [tile EXCEPT ![y] = update_row_loop(tile[y], data, TILE_DIMENSION - 1, shift)]

Tile_update_row(tile, data, y, msb) ==
    LET shift == IF msb THEN 1 ELSE 0
    IN  [tile EXCEPT ![y] = update_row_loop(tile[y], data, TILE_DIMENSION - 1, shift)]

----------------------------------------------------------------------------
(* struct Palette                                                          *)

Palette_new == [table |-> [i \in 0..3 |-> 0], raw |-> 0]

(* Palette::update filling the table from its last entry down.             *)
Palette_update_reversed(pal, raw) ==
    [table |-> [i \in 0..3 |-> BitAnd(raw \div (4 ^ (3 - i)), 3)], raw |-> raw]

Palette_update(pal, raw) ==
    [table |-> [i \in 0..3 |-> BitAnd(raw \div (4 ^ i), 3)], raw |-> raw]

----------------------------------------------------------------------------
(* struct OamSprite                                                        *)

OamSprite_new ==
    [ypos |-> 0, xpos |-> 0, tile |-> 0,
     behind_background |-> FALSE, xflip |-> FALSE, yflip |-> FALSE, palette |-> FALSE]

(* OamSprite::set_attrib_byte with the masks of the two flips exchanged.   *)
OamSprite_set_attrib_byte_flips_swapped(s, data) ==
    [s EXCEPT !.behind_background = BitAnd(data, BG_PRIORITY_ATTRIB_MASK) # 0,
              !.xflip = BitAnd(data, YFLIP_ATTRIB_MASK) # 0,
              !.yflip = BitAnd(data, XFLIP_ATTRIB_MASK) # 0,
              !.palette = BitAnd(data, PALLET_ATTRIB_MASK) # 0]

OamSprite_set_attrib_byte(s, data) ==
    [s EXCEPT !.behind_background = BitAnd(data, BG_PRIORITY_ATTRIB_MASK) # 0,
              !.xflip = BitAnd(data, XFLIP_ATTRIB_MASK) # 0,
              !.yflip = BitAnd(data, YFLIP_ATTRIB_MASK) # 0,
              !.palette = BitAnd(data, PALLET_ATTRIB_MASK) # 0]

----------------------------------------------------------------------------
(* PPU::new                                                                *)

PPU_new ==
    [tile_data |-> [o \in TileOffsets |-> 0],
     tiles |-> [t \in TileIdx |-> Tile_new],
     tilemaps |-> [o \in TilemapOffsets |-> 0],
     sprites |-> [i \in 0..(OAM_SPRITE_COUNT - 1) |-> OamSprite_new],
     sprite_data |-> [o \in 0..(OAM_RAM_SIZE - 1) |-> 0],
     lcdc |-> 0,
     lcd_enabled |-> FALSE,
     window_tiles_high |-> FALSE,
     window_enabled |-> FALSE,
     bg_window_signed_addressing |-> FALSE,
     bg_tiles_high |-> FALSE,
     obj_double_sprites |-> FALSE,
     obj_enabled |-> FALSE,
     bg_window_enable |-> FALSE,
     lcds |-> 0,
     line_compare_is |-> FALSE,
     mode2_is |-> FALSE,
     mode1_is |-> FALSE,
     mode0_is |-> FALSE,
     line_compare |-> FALSE,
     mode |-> HBLANK,
     scroll_y |-> 0,
     scroll_x |-> 0,
     line_y |-> 0,
     line_compare_value |-> 0,
     window_y |-> 0,
     window_x |-> 0,
     bg_palette |-> Palette_new,
     obj_palette1 |-> Palette_new,
     obj_palette2 |-> Palette_new,
     oam_dma_ticks |-> 0,
     oam_dma_src |-> 0,
     tick_counter |-> 0]

----------------------------------------------------------------------------
(* The register and memory writes of the PPU.                              *)

tile_write(p, data, addr) ==
    LET index == (addr - TILESET_START_ADDRESS) \div TILE_SIZE
        y == BitAnd(addr \div 2, 7)
        msb == BitAnd(addr, 1) # 0
    IN  [p EXCEPT !.tile_data[addr - TILESET_START_ADDRESS] = data,
                  !.tiles[index] = Tile_update_row(p.tiles[index], data, y, msb)]

sprite_write(p, data, addr) ==
    LET index == (addr - OAM_START_ADDRESS) \div OAM_SPRITE_SIZE
        field == BitAnd(addr, 3)
        s == p.sprites[index]
        s2 == CASE field = 0 -> [s EXCEPT !.ypos = data]
                [] field = 1 -> [s EXCEPT !.xpos = data]
                [] field = 2 -> [s EXCEPT !.tile = data]
                [] field = 3 -> OamSprite_set_attrib_byte(s, data)
    IN  [p EXCEPT !.sprites[index] = s2,
                  !.sprite_data[addr - OAM_START_ADDRESS] = data]

(* PPU::lcdc_write with the masks of the two object flags exchanged.       *)
lcdc_write_obj_swapped(p, data) ==
    [p EXCEPT !.lcdc = data,
              !.lcd_enabled = BitAnd(data, LCDC_ENABLE_MASK) # 0,
              !.window_tiles_high = BitAnd(data, LCDC_WINDOW_TILE_MAP_MASK) # 0,
              !.window_enabled = BitAnd(data, LCDC_WINDOW_DISPLAY_ENABLE_MASK) # 0,
              !.bg_window_signed_addressing =
                    BitAnd(data, LCDC_BG_WINDOW_TILE_MAP_SELECT_MASK) # 0,
              !.bg_tiles_high = BitAnd(data, LCDC_BG_TILE_MAP_SELECT_MASK) # 0,
              !.obj_double_sprites = BitAnd(data, LCDC_OBJ_DISPLAY_ENABLE_MASK) # 0,
              !.obj_enabled = BitAnd(data, LCDC_OBJ_SIZE_MASK) # 0,
              !.bg_window_enable = BitAnd(data, LCDC_BG_WINDOW_PRIORITY_MASK) # 0]

lcdc_write(p, data) ==
    [p EXCEPT !.lcdc = data,
              !.lcd_enabled = BitAnd(data, LCDC_ENABLE_MASK) # 0,
              !.window_tiles_high = BitAnd(data, LCDC_WINDOW_TILE_MAP_MASK) # 0,
              !.window_enabled = BitAnd(data, LCDC_WINDOW_DISPLAY_ENABLE_MASK) # 0,
              !.bg_window_signed_addressing =
                    BitAnd(data, LCDC_BG_WINDOW_TILE_MAP_SELECT_MASK) # 0,
              !.bg_tiles_high = BitAnd(data, LCDC_BG_TILE_MAP_SELECT_MASK) # 0,
              !.obj_double_sprites = BitAnd(data, LCDC_OBJ_SIZE_MASK) # 0,
              !.obj_enabled = BitAnd(data, LCDC_OBJ_DISPLAY_ENABLE_MASK) # 0,
              !.bg_window_enable = BitAnd(data, LCDC_BG_WINDOW_PRIORITY_MASK) # 0]

(* PPU::lcds_write with the masks of mode 1 and mode 2 exchanged.          *)
lcds_write_modes_swapped(p, data) ==
    [p EXCEPT !.line_compare_is = BitAnd(data, LCDS_LINE_CMP_IS_MASK) # 0,
              !.mode2_is = BitAnd(data, LCDS_MODE1_IS_MASK) # 0,
              !.mode1_is = BitAnd(data, LCDS_MODE2_IS_MASK) # 0,
              !.mode0_is = BitAnd(data, LCDS_MODE0_IS_MASK) # 0]

lcds_write(p, data) ==
    [p EXCEPT !.line_compare_is = BitAnd(data, LCDS_LINE_CMP_IS_MASK) # 0,
              !.mode2_is = BitAnd(data, LCDS_MODE2_IS_MASK) # 0,
              !.mode1_is = BitAnd(data, LCDS_MODE1_IS_MASK) # 0,
              !.mode0_is = BitAnd(data, LCDS_MODE0_IS_MASK) # 0]

(* The value is assembled one bit at a time, msb first, in a u8.           *)
lcds_read(p) ==
    LET v1 == BitOr(0, BoolU8(p.line_compare_is))
        v2 == BitOr((v1 * 2) % U8, BoolU8(p.mode2_is))
        v3 == BitOr((v2 * 2) % U8, BoolU8(p.mode1_is))
        v4 == BitOr((v3 * 2) % U8, BoolU8(p.mode0_is))
        v5 == BitOr((v4 * 2) % U8, BoolU8(p.line_compare))
    IN  BitOr((v5 * 4) % U8, p.mode)

(* PPU::dma_start leaving the countdown of a transfer in progress alone.   *)
dma_start_keeps_countdown(p, target) ==
    [p EXCEPT !.oam_dma_src = (target * 256) % U16,
              !.oam_dma_ticks = IF @ = 0 THEN OAM_DMA_TRANSFER_TICKS ELSE @]

dma_start(p, target) ==
    [p EXCEPT !.oam_dma_src = (target * 256) % U16,
              !.oam_dma_ticks = OAM_DMA_TRANSFER_TICKS]

----------------------------------------------------------------------------
(* bus.rs.  A BusItem is a record [start_addr, end_addr, item], where item *)
(* names the device; an Option<&BusItem> is a sequence of length 0 or 1.   *)
(* The devices on the bus are RAM blocks (crate::ram, a collaborator of    *)
(* the bus): mem[d] maps the addresses device d holds to their bytes.      *)

Ram_bus_read8(m, addr) == m[addr]

Ram_bus_write8(m, addr, value) == [m EXCEPT ![addr] = value]

in_range(item, addr) == item.start_addr <= addr /\ item.end_addr >= addr

(* The search returning the last item in range instead of the first.       *)
RECURSIVE find_item_last(_, _, _)
find_item_last(members, addr, i) ==
    IF i > Len(members) THEN <<>>
    ELSE IF find_item_last(members, addr, i + 1) # <<>>
         THEN find_item_last(members, addr, i + 1)
    ELSE IF in_range(members[i], addr) THEN <<members[i]>>
    ELSE <<>>

(* members.iter().find(|x| x.in_range(addr)), from position i on.         *)
RECURSIVE find_item(_, _, _)
find_item(members, addr, i) ==
    IF i > Len(members) THEN <<>>
    ELSE IF in_range(members[i], addr) THEN <<members[i]>>
    ELSE find_item(members, addr, i + 1)

get_item(members, addr) == find_item(members, addr, 1)

add_item(members, item) == Append(members, item)

BusItem_bus_read8(item, mem, addr) == Ram_bus_read8(mem[item.item], addr)

BusItem_bus_write8(item, mem, addr, value) ==
    [mem EXCEPT ![item.item] = Ram_bus_write8(mem[item.item], addr, value)]

(* Bus::bus_read8 answering 0 where no item is in range.                   *)
Bus_bus_read8_open_zero(members, mem, addr) ==
    LET found == get_item(members, addr)
    IN  IF found # <<>> THEN BusItem_bus_read8(found[1], mem, addr) ELSE 0

Bus_bus_read8(members, mem, addr) ==
    LET found == get_item(members, addr)
    IN  IF found # <<>> THEN BusItem_bus_read8(found[1], mem, addr) ELSE 255

(* A write handed to every item in range, from position i on.             *)
RECURSIVE write_every_item(_, _, _, _, _)
write_every_item(members, mem, addr, value, i) ==
    IF i > Len(members) THEN mem
    ELSE write_every_item(members,
                          IF in_range(members[i], addr)
                          THEN BusItem_bus_write8(members[i], mem, addr, value)
                          ELSE mem,
                          addr, value, i + 1)

Bus_bus_write8_every_item(members, mem, addr, value) ==
    write_every_item(members, mem, addr, value, 1)

Bus_bus_write8(members, mem, addr, value) ==
    LET found == get_item(members, addr)
    IN  IF found # <<>> THEN BusItem_bus_write8(found[1], mem, addr, value) ELSE mem

(* The default bus_read16 and bus_write16 of trait BusRW, as Bus has them. *)
Bus_bus_read16(members, mem, addr) ==
    BitOr((Bus_bus_read8(members, mem, addr + 1) * 256) % U16,
          Bus_bus_read8(members, mem, addr))

(* bus_write16 with the high byte first at addr.                           *)
Bus_bus_write16_big_endian(members, mem, addr, value) ==
    Bus_bus_write8(members,
                   Bus_bus_write8(members, mem, addr, (value \div 256) % U8),
                   addr + 1, value % U8)

Bus_bus_write16(members, mem, addr, value) ==
    Bus_bus_write8(members,
                   Bus_bus_write8(members, mem, addr, value % U8),
                   addr + 1, (value \div 256) % U8)

----------------------------------------------------------------------------
(* interrupt::InterruptStatus, as the PPU uses it: two request latches.    *)

InterruptStatus_new == [vblank |-> FALSE, lcdstat |-> FALSE]

request_vblank(i) == [i EXCEPT !.vblank = TRUE]

request_lcdstat(i) == [i EXCEPT !.lcdstat = TRUE]

----------------------------------------------------------------------------
(* OAM DMA.                                                                *)

(* The loop of PPU::dma_transfer over the bytes lo..hi, in ascending       *)
(* order: lo..mid first, then mid+1..hi on the PPU q that leaves.  (The    *)
(* CASE has the first half evaluated before the second is entered; its     *)
(* guard holds of every sprite_write.)                                     *)
RECURSIVE dma_transfer_loop(_, _, _, _, _)
RECURSIVE dma_transfer_rest(_, _, _, _, _, _)
dma_transfer_loop(p, members, mem, lo, hi) ==
    IF lo = hi
    THEN sprite_write(p, Bus_bus_read8(members, mem, p.oam_dma_src + lo),
                      OAM_START_ADDRESS + lo)
    ELSE dma_transfer_rest(dma_transfer_loop(p, members, mem, lo, (lo + hi) \div 2),
                           p.oam_dma_src, members, mem, ((lo + hi) \div 2) + 1, hi)

dma_transfer_rest(q, src, members, mem, lo, hi) ==
    CASE q.oam_dma_src = src -> dma_transfer_loop(q, members, mem, lo, hi)

(* PPU::dma_transfer stopping one byte short.                              *)
dma_transfer_one_short(p, members, mem) ==
    dma_transfer_loop(p, members, mem, 0, OAM_RAM_SIZE - 2)

dma_transfer(p, members, mem) == dma_transfer_loop(p, members, mem, 0, OAM_RAM_SIZE - 1)

(* The countdown as a wrapping subtraction, without the comparison.        *)
dma_countdown_wrapping(p, ticks) ==
    [p EXCEPT !.oam_dma_ticks = (p.oam_dma_ticks - (ticks % U8)) % U8]

(* Lines 273-278: the remaining DMA ticks.                                 *)
dma_countdown(p, ticks) ==
    IF p.oam_dma_ticks > ticks
    THEN [p EXCEPT !.oam_dma_ticks = (p.oam_dma_ticks - (ticks % U8)) % U8]
    ELSE [p EXCEPT !.oam_dma_ticks = 0]

(* PPU::update_dma copying only from a source some item is in range of.    *)
update_dma_skips_unmapped(p, ticks, members, mem) ==
    IF p.oam_dma_ticks > 0
    THEN dma_countdown(IF p.oam_dma_ticks = OAM_DMA_TRANSFER_TICKS
                          /\ get_item(members, p.oam_dma_src) # <<>>
                       THEN dma_transfer(p, members, mem)
                       ELSE p,
                       ticks)
    ELSE p

update_dma(p, ticks, members, mem) ==
    IF p.oam_dma_ticks > 0
    THEN dma_countdown(IF p.oam_dma_ticks = OAM_DMA_TRANSFER_TICKS
                       THEN dma_transfer(p, members, mem)
                       ELSE p,
                       ticks)
    ELSE p

----------------------------------------------------------------------------
(* PPU::execute_ticks.  Its parts return the PPU and the InterruptStatus   *)
(* they leave: [ppu |-> ..., is |-> ...].                                  *)

(* The tick count corrected without the increment of the line count.      *)
line_increment_stuck(p, i) ==
    LET lc == p.line_compare_value = p.line_y
    IN  [ppu |-> [p EXCEPT !.tick_counter = p.tick_counter - LCD_TICKS_PER_LINE,
                           !.line_compare = lc],
         is |-> IF lc /\ p.line_compare_is THEN request_lcdstat(i) ELSE i]

(* Lines 299-305: the next line and its comparison with LYC.               *)
line_increment(p, i) ==
    LET y1 == p.line_y + 1
        lc == p.line_compare_value = y1
    IN  [ppu |-> [p EXCEPT !.tick_counter = p.tick_counter - LCD_TICKS_PER_LINE,
                           !.line_y = y1,
                           !.line_compare = lc],
         is |-> IF lc /\ p.line_compare_is THEN request_lcdstat(i) ELSE i]

(* The start of vblank taken on every line from 144 on.                    *)
vblank_start_every_line(p, i) ==
    IF p.line_y >= LCD_LINE_VBLANK_START
    THEN [ppu |-> [p EXCEPT !.mode = VBLANK],
          is |-> IF p.mode1_is THEN request_lcdstat(request_vblank(i))
                 ELSE request_vblank(i)]
    ELSE [ppu |-> p, is |-> i]

(* Lines 307-317: the start of vblank.                                     *)
vblank_start(p, i) ==
    IF p.line_y = LCD_LINE_VBLANK_START
    THEN [ppu |-> [p EXCEPT !.mode = VBLANK],
          is |-> IF p.mode1_is THEN request_lcdstat(request_vblank(i))
                 ELSE request_vblank(i)]
    ELSE [ppu |-> p, is |-> i]

(* The start of a new frame taken one line early.                          *)
frame_start_one_line_early(p, i) ==
    IF p.line_y > LCD_LINE_VBLANK_END - 1
    THEN [ppu |-> [p EXCEPT !.line_y = 0, !.mode = SPRITE_SEARCH], is |-> i]
    ELSE [ppu |-> p, is |-> i]

(* The start of a new frame taken one line late.                           *)
frame_start_one_line_late(p, i) ==
    IF p.line_y > LCD_LINE_VBLANK_END + 1
    THEN [ppu |-> [p EXCEPT !.line_y = 0, !.mode = SPRITE_SEARCH], is |-> i]
    ELSE [ppu |-> p, is |-> i]

(* Lines 319-323: the start of a new frame.                                *)
frame_start(p, i) ==
    IF p.line_y > LCD_LINE_VBLANK_END
    THEN [ppu |-> [p EXCEPT !.line_y = 0, !.mode = SPRITE_SEARCH], is |-> i]
    ELSE [ppu |-> p, is |-> i]

(* The match on the tick count with its first arm one tick longer.         *)
line_mode_long_search(tick_counter) ==
    IF tick_counter <= 80 THEN SPRITE_SEARCH
    ELSE IF tick_counter <= 251 THEN LCD_TRANSFER
    ELSE HBLANK

(* The match on the tick count without its second arm.                     *)
line_mode_without_transfer(tick_counter) ==
    IF tick_counter <= 79 THEN SPRITE_SEARCH
    ELSE HBLANK

(* Lines 331-344: the mode of a tick count within a visible line.          *)
line_mode(tick_counter) ==
    IF tick_counter <= 79 THEN SPRITE_SEARCH
    ELSE IF tick_counter <= 251 THEN LCD_TRANSFER
    ELSE HBLANK

(* The interrupt of a mode requested without the test for a change.        *)
mode_change_every_call(p, i, new_mode) ==
    [ppu |-> [p EXCEPT !.mode = new_mode],
     is |-> IF new_mode = SPRITE_SEARCH /\ p.mode2_is THEN request_lcdstat(i)
            ELSE IF new_mode = HBLANK /\ p.mode0_is THEN request_lcdstat(i)
            ELSE i]

(* Lines 346-362: a mode change and its interrupt.                         *)
mode_change(p, i, new_mode) ==
    IF new_mode # p.mode
    THEN [ppu |-> [p EXCEPT !.mode = new_mode],
          is |-> IF new_mode = SPRITE_SEARCH /\ p.mode2_is THEN request_lcdstat(i)
                 ELSE IF new_mode = HBLANK /\ p.mode0_is THEN request_lcdstat(i)
                 ELSE i]
    ELSE [ppu |-> p, is |-> i]

(* The in-line mode computed on the lines of vblank too.                   *)
mode_update_in_vblank(r) == mode_change(r.ppu, r.is, line_mode(r.ppu.tick_counter))

(* Lines 328-363: not in vblank.                                           *)
mode_update(r) ==
    IF r.ppu.line_y < LCD_LINE_VBLANK_START
    THEN mode_change(r.ppu, r.is, line_mode(r.ppu.tick_counter))
    ELSE r

Then_frame_start(r) == frame_start(r.ppu, r.is)

Then_vblank_start(r) == vblank_start(r.ppu, r.is)

(* Lines 294-326: if the line has expired.                                 *)
line_update(p, i) ==
    IF p.tick_counter >= LCD_TICKS_PER_LINE
    THEN Then_frame_start(Then_vblank_start(line_increment(p, i)))
    ELSE [ppu |-> p, is |-> i]

(* The LCD update without the test of lcd_enabled.                         *)
lcd_update_ignores_enable(p, ticks, i, wrap) ==
    IF p.tick_counter + ticks >= U16 /\ ~wrap THEN [ppu |-> p, is |-> i, panic |-> TRUE]
    ELSE [panic |-> FALSE] @@
         mode_update(line_update([p EXCEPT !.tick_counter = (p.tick_counter + ticks) % U16], i))

(* Lines 291-364, on the PPU update_dma left.  `self.tick_counter +=       *)
(* ticks' on a u16 aborts on overflow in a build with overflow checks and  *)
(* wraps in one without: `wrap' says which.                                *)
lcd_update(p, ticks, i, wrap) ==
    IF ~p.lcd_enabled THEN [ppu |-> p, is |-> i, panic |-> FALSE]
    ELSE IF p.tick_counter + ticks >= U16 /\ ~wrap THEN [ppu |-> p, is |-> i, panic |-> TRUE]
    ELSE [panic |-> FALSE] @@
         mode_update(line_update([p EXCEPT !.tick_counter = (p.tick_counter + ticks) % U16], i))

execute_ticks(p, ticks, members, mem, i, wrap) ==
    lcd_update(update_dma(p, ticks, members, mem), ticks, i, wrap)

----------------------------------------------------------------------------
(* impl BusRW for PPU.  A match on an address no arm covers aborts, and so *)
(* does the OAM arm on an index past the table.                            *)

InTiles(addr) == TILESET_START_ADDRESS <= addr /\ addr <= TILESET_END_ADDRESS
InTilemaps(addr) == TILEMAP_START_ADDRESS <= addr /\ addr <= TILEMAP_END_ADDRESS
InOam(addr) == OAM_START_ADDRESS <= addr /\ addr <= OAM_END_ADDRESS

Registers ==
    {LCDC_ADDRESS, LCDS_ADDRESS, SCY_ADDRESS, SCX_ADDRESS, LY_ADDRESS, LYC_ADDRES,
     WY_ADDRESS, WX_ADDRESS, BG_PALETTE_ADDRESS, OBJ_PALETTE1_ADDRESS,
     OBJ_PALETTE2_ADDRESS, OAM_DMA_REGISTER_ADDRESS}

PPU_access_panics(addr) ==
    \/ ~(InTiles(addr) \/ InTilemaps(addr) \/ InOam(addr) \/ addr \in Registers)
    \/ InOam(addr) /\ addr - OAM_START_ADDRESS >= OAM_RAM_SIZE

PPU_bus_read8(p, addr) ==
    CASE InTiles(addr) -> p.tile_data[addr - TILESET_START_ADDRESS]
      [] InTilemaps(addr) -> p.tilemaps[addr - TILEMAP_START_ADDRESS]
      [] InOam(addr) -> p.sprite_data[addr - OAM_START_ADDRESS]
      [] addr = LCDC_ADDRESS -> p.lcdc
      [] addr = LCDS_ADDRESS -> lcds_read(p)
      [] addr = SCY_ADDRESS -> p.scroll_y
      [] addr = SCX_ADDRESS -> p.scroll_x
      [] addr = LY_ADDRESS -> p.line_y
      [] addr = LYC_ADDRES -> p.line_compare_value
      [] addr = WY_ADDRESS -> p.window_y
      [] addr = WX_ADDRESS -> p.window_x
      [] addr = BG_PALETTE_ADDRESS -> p.bg_palette.raw
      [] addr = OBJ_PALETTE1_ADDRESS -> p.obj_palette1.raw
      [] addr = OBJ_PALETTE2_ADDRESS -> p.obj_palette2.raw
      [] addr = OAM_DMA_REGISTER_ADDRESS -> (p.oam_dma_src \div 256) % U8

(* The write to LY stored in line_y.                                       *)
ly_write_stores(p, value) == [p EXCEPT !.line_y = value]

(* Line 569: the write to LY, a dead write.                                *)
ly_write(p, value) == p

PPU_bus_write8(p, addr, value) ==
    CASE PPU_access_panics(addr) -> p
      [] InTiles(addr) -> tile_write(p, value, addr)
      [] InTilemaps(addr) -> [p EXCEPT !.tilemaps[addr - TILEMAP_START_ADDRESS] = value]
      [] InOam(addr) -> sprite_write(p, value, addr)
      [] addr = LCDC_ADDRESS -> lcdc_write(p, value)
      [] addr = LCDS_ADDRESS -> lcds_write(p, value)
      [] addr = SCY_ADDRESS -> [p EXCEPT !.scroll_y = value]
      [] addr = SCX_ADDRESS -> [p EXCEPT !.scroll_x = value]
      [] addr = LY_ADDRESS -> ly_write(p, value)
      [] addr = LYC_ADDRES -> [p EXCEPT !.line_compare_value = value]
      [] addr = WY_ADDRESS -> [p EXCEPT !.window_y = value]
      [] addr = WX_ADDRESS -> [p EXCEPT !.window_x = value]
      [] addr = BG_PALETTE_ADDRESS -> [p EXCEPT !.bg_palette = Palette_update(@, value)]
      [] addr = OBJ_PALETTE1_ADDRESS -> [p EXCEPT !.obj_palette1 = Palette_update(@, value)]
      [] addr = OBJ_PALETTE2_ADDRESS -> [p EXCEPT !.obj_palette2 = Palette_update(@, value)]
      [] addr = OAM_DMA_REGISTER_ADDRESS -> dma_start(p, value)

(* PPU::bus_read16 and PPU::bus_write16.                                   *)
PPU_bus_read16(p, addr) ==
    BitOr((PPU_bus_read8(p, addr + 1) * 256) % U16, PPU_bus_read8(p, addr))

PPU_bus_write16(p, addr, value) ==
    PPU_bus_write8(PPU_bus_write8(p, addr, BitAnd(value % U8, 255)),
                   addr + 1, (value \div 256) % U8)

----------------------------------------------------------------------------
(* The RAM devices and the bindings that may be registered on the bus.     *)
(* Both devices answer 0x0100..0x0183.  Device 1 is loaded as the DMA test *)
(* loads its RAM (mem[x] = x as u8) and device 2 is zeroed.  BusItems maps *)
(* the first 128 bytes of page 0x01 to device 1: the rest of the page and  *)
(* every other page are unmapped.                                          *)

DevIds == {1, 2}

DevAddrs(d) == 256..387

BusItems == {[start_addr |-> 256, end_addr |-> 383, item |-> 1]}

RamInit == [d \in DevIds |-> [a \in DevAddrs(d) |-> IF d = 1 THEN a % U8 ELSE 0]]

----------------------------------------------------------------------------
(* The state after construction, and the operations.                       *)

Init ==
    /\ ppu = PPU_new
    /\ bus = <<>>
    /\ ram = RamInit
    /\ is = InterruptStatus_new
    /\ op = [name |-> "new", addr |-> 0, arg |-> 0]
    /\ staged = <<>>
    /\ panicked = FALSE
    /\ frame = [since_vblank |-> -1, pass_vblanks |-> 0, last_line |-> 0,
                last_since |-> -1]

(* ppu.bus_write8(addr, value)                                             *)
Write8(addr, value) ==
    /\ ~panicked
    /\ ppu' = PPU_bus_write8(ppu, addr, value)
    /\ panicked' = PPU_access_panics(addr)
    /\ is' = InterruptStatus_new
    /\ op' = [name |-> "write8", addr |-> addr, arg |-> value]
    /\ staged' = IF addr = OAM_DMA_REGISTER_ADDRESS THEN <<value>> ELSE staged
    /\ frame' = [frame EXCEPT !.last_line = ppu.line_y, !.last_since = frame.since_vblank]
    /\ UNCHANGED <<bus, ram>>

(* ppu.bus_read8(addr); op'.arg is the byte returned.                      *)
Read8(addr) ==
    /\ ~panicked
    /\ panicked' = PPU_access_panics(addr)
    /\ is' = InterruptStatus_new
    /\ op' = [name |-> "read8", addr |-> addr,
              arg |-> IF panicked' THEN 0 ELSE PPU_bus_read8(ppu, addr)]
    /\ frame' = [frame EXCEPT !.last_line = ppu.line_y, !.last_since = frame.since_vblank]
    /\ UNCHANGED <<ppu, bus, ram, staged>>

(* The builds `self.tick_counter += ticks' can tell apart: both when the   *)
(* sum leaves a u16, and only the wrapping one when it does not.           *)
overflow_builds(p, ticks) ==
    IF p.lcd_enabled /\ p.tick_counter + ticks >= U16 THEN BOOLEAN ELSE {TRUE}

(* ppu.execute_ticks(ticks, bus, is), on an InterruptStatus with nothing   *)
(* pending, so that `is' holds afterwards what this call requested.        *)
ExecuteTicks(ticks) ==
    /\ ~panicked
    /\ \E wrap \in overflow_builds(ppu, ticks) :
         \E r \in {execute_ticks(ppu, ticks, bus, ram, InterruptStatus_new, wrap)} :
            /\ ppu' = r.ppu
            /\ is' = r.is
            /\ panicked' = r.panic
            /\ frame' =
                 [since_vblank |->
                      IF r.is.vblank THEN 0
                      ELSE IF frame.since_vblank = -1 THEN -1
                      ELSE IF r.ppu.line_y # ppu.line_y THEN frame.since_vblank + 1
                      ELSE frame.since_vblank,
                  pass_vblanks |->
                      (IF r.ppu.line_y # ppu.line_y /\ r.ppu.line_y = 0 THEN 0
                       ELSE frame.pass_vblanks)
                      + (IF r.is.vblank THEN 1 ELSE 0),
                  last_line |-> ppu.line_y,
                  last_since |-> frame.since_vblank]
    /\ op' = [name |-> "execute_ticks", addr |-> 0, arg |-> ticks]
    /\ staged' = <<>>
    /\ UNCHANGED <<bus, ram>>

(* bus.add_item(item)                                                      *)
AddItem(item) ==
    /\ ~panicked
    /\ bus' = add_item(bus, item)
    /\ is' = InterruptStatus_new
    /\ op' = [name |-> "add_item", addr |-> item.start_addr, arg |-> item.item]
    /\ frame' = [frame EXCEPT !.last_line = ppu.line_y, !.last_since = frame.since_vblank]
    /\ UNCHANGED <<ppu, ram, staged, panicked>>

(* bus.bus_write8(addr, value)                                             *)
BusWrite8(addr, value) ==
    /\ ~panicked
    /\ ram' = Bus_bus_write8(bus, ram, addr, value)
    /\ is' = InterruptStatus_new
    /\ op' = [name |-> "bus_write8", addr |-> addr, arg |-> value]
    /\ frame' = [frame EXCEPT !.last_line = ppu.line_y, !.last_since = frame.since_vblank]
    /\ UNCHANGED <<ppu, bus, staged, panicked>>

(* bus.bus_read8(addr); op'.arg is the byte returned.                      *)
BusRead8(addr) ==
    /\ ~panicked
    /\ is' = InterruptStatus_new
    /\ op' = [name |-> "bus_read8", addr |-> addr, arg |-> Bus_bus_read8(bus, ram, addr)]
    /\ frame' = [frame EXCEPT !.last_line = ppu.line_y, !.last_since = frame.since_vblank]
    /\ UNCHANGED <<ppu, bus, ram, staged, panicked>>

(* bus.bus_read16(addr); op'.arg is the word returned.                     *)
BusRead16(addr) ==
    /\ ~panicked
    /\ is' = InterruptStatus_new
    /\ op' = [name |-> "bus_read16", addr |-> addr, arg |-> Bus_bus_read16(bus, ram, addr)]
    /\ frame' = [frame EXCEPT !.last_line = ppu.line_y, !.last_since = frame.since_vblank]
    /\ UNCHANGED <<ppu, bus, ram, staged, panicked>>

(* bus.bus_write16(addr, value)                                            *)
BusWrite16(addr, value) ==
    /\ ~panicked
    /\ ram' = Bus_bus_write16(bus, ram, addr, value)
    /\ is' = InterruptStatus_new
    /\ op' = [name |-> "bus_write16", addr |-> addr, arg |-> value]
    /\ frame' = [frame EXCEPT !.last_line = ppu.line_y, !.last_since = frame.since_vblank]
    /\ UNCHANGED <<ppu, bus, staged, panicked>>

(* ppu.bus_read16(addr); op'.arg is the word returned.                     *)
Read16(addr) ==
    /\ ~panicked
    /\ panicked' = (PPU_access_panics(addr + 1) \/ PPU_access_panics(addr))
    /\ is' = InterruptStatus_new
    /\ op' = [name |-> "read16", addr |-> addr,
              arg |-> IF panicked' THEN 0 ELSE PPU_bus_read16(ppu, addr)]
    /\ frame' = [frame EXCEPT !.last_line = ppu.line_y, !.last_since = frame.since_vblank]
    /\ UNCHANGED <<ppu, bus, ram, staged>>

(* ppu.bus_write16(addr, value)                                            *)
Write16(addr, value) ==
    /\ ~panicked
    /\ ppu' = PPU_bus_write16(ppu, addr, value)
    /\ panicked' = (PPU_access_panics(addr) \/ PPU_access_panics(addr + 1))
    /\ is' = InterruptStatus_new
    /\ op' = [name |-> "write16", addr |-> addr, arg |-> value]
    /\ staged' = IF addr + 1 = OAM_DMA_REGISTER_ADDRESS THEN <<(value \div 256) % U8>>
                  ELSE IF addr = OAM_DMA_REGISTER_ADDRESS THEN <<value % U8>>
                  ELSE staged
    /\ frame' = [frame EXCEPT !.last_line = ppu.line_y, !.last_since = frame.since_vblank]
    /\ UNCHANGED <<bus, ram>>

----------------------------------------------------------------------------
(* Tile RAM: writes to the first and the last tile.                        *)

TileAddrs == {32768, 32769, 32770, 32783, 38896, 38911}
TileVals == {0, 124, 198}

NextTile == \E a \in TileAddrs, v \in TileVals : Write8(a, v)

SpecTile == Init /\ [][NextTile]_vars

----------------------------------------------------------------------------
(* A call of execute_ticks with the LCD on is explored while the tick      *)
(* counter stays below MaxTickSum; with the LCD off the counter stands     *)
(* still and every tick count is explored.                                 *)

MaxTickSum == 913

TickBound(n) == ppu.lcd_enabled => ppu.tick_counter + n < MaxTickSum

Registered == {bus[k] : k \in 1..Len(bus)}

----------------------------------------------------------------------------
(* OAM: bus writes to the first and the last entry, and DMA transfers      *)
(* from a mapped and from an unmapped source.                              *)

OamWrites == {<<65024, 16>>, <<65025, 2>>, <<65026, 127>>, <<65027, 160>>, <<65183, 95>>}

NextOam ==
    \/ \E w \in OamWrites : Write8(w[1], w[2])
    \/ Write8(OAM_DMA_REGISTER_ADDRESS, 1)
    \/ ExecuteTicks(OAM_DMA_TRANSFER_TICKS)
    \/ \E it \in BusItems : it \notin Registered /\ AddItem(it)

SpecOam == Init /\ [][NextOam]_vars

----------------------------------------------------------------------------
(* The DMA engine: triggers, ticks with the LCD on and off, the source     *)
(* mapped or not, writes to the source and to OAM.  While the LCD is on    *)
(* the scanline counter is followed for MaxDmaLine lines.                  *)

DmaPages == {1, 2}
DmaTicks == {0, 152, 160, 65535}
RamWrites == {<<259, 240>>}
MaxDmaLine == 1

NextDma ==
    \/ Write8(65027, 160)
    \/ \E v \in DmaPages : Write8(OAM_DMA_REGISTER_ADDRESS, v)
    \/ \E v \in {128, 0} : Write8(LCDC_ADDRESS, v)
    \/ \E n \in DmaTicks : ppu.line_y < MaxDmaLine /\ TickBound(n) /\ ExecuteTicks(n)
    \/ \E it \in BusItems : it \notin Registered /\ AddItem(it)
    \/ \E w \in RamWrites : BusWrite8(w[1], w[2])

SpecDma == Init /\ [][NextDma]_vars

----------------------------------------------------------------------------
(* Timing: the LCD registers and the scanline state machine over whole     *)
(* frames.                                                                 *)

LcdcVals == {128, 0}
LcdsVals == {0, 16, 64, 255}
LycVals == {0, 1, 154}
Ticks == {152, 456, 608, 65535}

Next ==
    \/ \E v \in LcdcVals : Write8(LCDC_ADDRESS, v)
    \/ \E v \in LcdsVals : Write8(LCDS_ADDRESS, v)
    \/ \E v \in LycVals : Write8(LYC_ADDRES, v)
    \/ \E n \in Ticks : TickBound(n) /\ ExecuteTicks(n)

Spec == Init /\ [][Next]_vars

----------------------------------------------------------------------------
(* The bus: three bindings of two devices whose ranges overlap, registered *)
(* in any order, and 8-bit and 16-bit accesses below, inside, across and   *)
(* past them; 16-bit accesses to the scroll registers of the PPU.          *)

BusSample ==
    {[start_addr |-> 256, end_addr |-> 383, item |-> 1],
     [start_addr |-> 382, end_addr |-> 385, item |-> 2],
     [start_addr |-> 383, end_addr |-> 386, item |-> 1]}
BusAddrs == {381, 383, 385, 386, 387}
BusAddrs16 == {383, 386}
BusVals == {165}
BusVals16 == {4660}

NextBus ==
    \/ \E it \in BusSample : it \notin Registered /\ AddItem(it)
    \/ \E a \in BusAddrs, v \in BusVals : BusWrite8(a, v)
    \/ \E a \in BusAddrs : BusRead8(a)
    \/ \E a \in BusAddrs16, v \in BusVals16 : BusWrite16(a, v)
    \/ \E a \in BusAddrs16 : BusRead16(a)
    \/ \E v \in BusVals16 : Write16(SCY_ADDRESS, v)
    \/ Read16(SCY_ADDRESS)

SpecBus == Init /\ [][NextBus]_vars

----------------------------------------------------------------------------
(* Registers: LCDC with each bit alone and in patterns, the three palette  *)
(* registers, and whole lines of ticks in between.                         *)

LcdcRegVals == {0, 1, 2, 4, 8, 16, 32, 64, 128, 85, 170, 255}
PaletteAddrs == {BG_PALETTE_ADDRESS, OBJ_PALETTE1_ADDRESS, OBJ_PALETTE2_ADDRESS}
PaletteVals == {0, 27, 228, 255}

NextReg ==
    \/ \E v \in LcdcRegVals : Write8(LCDC_ADDRESS, v)
    \/ \E a \in PaletteAddrs, v \in PaletteVals : Write8(a, v)
    \/ ppu.line_y < MaxDmaLine /\ ExecuteTicks(LCD_TICKS_PER_LINE)

SpecReg == Init /\ [][NextReg]_vars

----------------------------------------------------------------------------
(* Modes: calls of at most 80 ticks, in steps of 4 as the tests of the     *)
(* PPU make them, over whole frames with the mode 0 or the mode 2 source   *)
(* enabled.                                                                *)

ModeLcdsVals == {8, 32}
ModeTicks == {0, 4, 80}

NextMode ==
    \/ Write8(LCDC_ADDRESS, LCDC_ENABLE_MASK)
    \/ \E v \in ModeLcdsVals : Write8(LCDS_ADDRESS, v)
    \/ \E n \in ModeTicks : ExecuteTicks(n)

SpecMode == Init /\ [][NextMode]_vars

----------------------------------------------------------------------------
(* Ports: writes to the read-only LY and reads and writes at the last byte *)
(* of OAM and one past it, on every line of a frame, with the LCD on and   *)
(* off and with a DMA transfer from an unmapped page staged and running.   *)

PortWrites == {<<LY_ADDRESS, 0>>, <<LY_ADDRESS, 153>>, <<65183, 95>>, <<65184, 95>>}
PortReads == {LY_ADDRESS, 65183, 65184}
PortTicks == {LCD_TICKS_PER_LINE}

NextPort ==
    \/ \E w \in PortWrites : Write8(w[1], w[2])
    \/ \E a \in PortReads : Read8(a)
    \/ \E v \in LcdcVals : Write8(LCDC_ADDRESS, v)
    \/ Write8(OAM_DMA_REGISTER_ADDRESS, 2)
    \/ \E n \in PortTicks : ExecuteTicks(n)

SpecPort == Init /\ [][NextPort]_vars

----------------------------------------------------------------------------
(* Frames: whole frames under calls of no ticks, of part of a line, of one *)
(* line, of two lines and of nearly a whole u16, with the LCD switched on  *)
(* and off and with writes to LY of a value no line has.  A call with the LCD on is explored when the tick counter      *)
(* stays below MaxFrameTicks or when the addition leaves a u16 (then in    *)
(* both builds).  Every tick count is a multiple of 152 up to a multiple   *)
(* of 65536, so the tick counter stays one.                                *)

FrameTicks == {0, 152, 456, 912, 65384}
FrameLyVals == {200}
MaxFrameTicks == 1217

FrameBound(n) ==
    ppu.lcd_enabled =>
        (ppu.tick_counter + n < MaxFrameTicks \/ ppu.tick_counter + n >= U16)

NextFrame ==
    \/ \E v \in LcdcVals : Write8(LCDC_ADDRESS, v)
    \/ \E v \in FrameLyVals : Write8(LY_ADDRESS, v)
    \/ \E n \in FrameTicks : FrameBound(n) /\ ExecuteTicks(n)

SpecFrame == Init /\ [][NextFrame]_vars

----------------------------------------------------------------------------
(* Mode order: from reset the LCD is enabled and every call advances 1 or  *)
(* 80 ticks, so that every tick of every line of a frame is a state.       *)

OrderTicks == {1, 80}

NextOrder ==
    \/ ~ppu.lcd_enabled /\ Write8(LCDC_ADDRESS, LCDC_ENABLE_MASK)
    \/ \E n \in OrderTicks : ppu.lcd_enabled /\ ExecuteTicks(n)

SpecOrder == Init /\ [][NextOrder]_vars

----------------------------------------------------------------------------
(* Progress: the LCD is enabled once and execute_ticks is called again and *)
(* again, with 4 ticks (the step of the tests of the PPU) or with a whole  *)
(* line of 456: the caller's loop is the weak fairness of TickCall.        *)

LiveTicks == {4, LCD_TICKS_PER_LINE}

TickCall == \E n \in LiveTicks : ExecuteTicks(n)

NextLive ==
    \/ ~ppu.lcd_enabled /\ Write8(LCDC_ADDRESS, LCDC_ENABLE_MASK)
    \/ TickCall

SpecLive == Init /\ [][NextLive]_vars /\ WF_vars(TickCall)

----------------------------------------------------------------------------
(* Properties.  In an action formula the unprimed variables are the state  *)
(* an operation starts in and the primed ones the state it leaves; op'     *)
(* names that operation.                                                   *)

(* The pixel the raw bytes of tile t give row r, column c: bit 7-c of the  *)
(* byte of the low plane, and twice bit 7-c of the byte of the high plane. *)
RawPixel(p, t, r, c) ==
    Bit(PPU_bus_read8(p, TILESET_START_ADDRESS + TILE_SIZE * t + 2 * r), 7 - c)
    + 2 * Bit(PPU_bus_read8(p, TILESET_START_ADDRESS + TILE_SIZE * t + 2 * r + 1), 7 - c)

TileCoherent(p) ==
    \A t \in TileIdx, r \in 0..(TILE_DIMENSION - 1), c \in 0..(TILE_DIMENSION - 1) :
        p.tiles[t][r][c] = RawPixel(p, t, r, c)

(* A write to tile RAM is read back at its address, and every other        *)
(* address reads as before.                                                *)
TileWriteReadBack ==
    (op'.name = "write8" /\ InTiles(op'.addr)) =>
        \A o \in TileOffsets :
            PPU_bus_read8(ppu', TILESET_START_ADDRESS + o) =
                IF TILESET_START_ADDRESS + o = op'.addr THEN op'.arg
                ELSE PPU_bus_read8(ppu, TILESET_START_ADDRESS + o)

(* C1: in every state write8 calls to tile RAM reach, every decoded pixel  *)
(* tiles[t][r][c] is bit 7-c of raw byte 16t+2r plus twice bit 7-c of raw  *)
(* byte 16t+2r+1, and read8 of a tile address returns the last byte        *)
(* written there.                                                          *)
C1_TileCoherence == []TileCoherent(ppu) /\ [][TileWriteReadBack]_vars

(* C1, witness: row 0 of tile 0 after 0x7C went to its low plane and 0xC6  *)
(* to its high plane, the last tile written as well.                       *)
C1_Witness ==
    /\ op.name = "write8"
    /\ PPU_bus_read8(ppu, 32768) = 124
    /\ PPU_bus_read8(ppu, 32769) = 198
    /\ ppu.tiles[0][0][0] = 2
    /\ ppu.tiles[0][0][1] = 3
    /\ ppu.tiles[0][0][2] = 1
    /\ ppu.tiles[0][0][7] = 0
    /\ ppu.tiles[TILESET_COUNT - 1][7][0] = 2

(* The raw byte k of OAM, as the bus reads it.                             *)
OamRaw(p, k) == PPU_bus_read8(p, OAM_START_ADDRESS + k)

OamCoherent(p) ==
    /\ \A i \in 0..(OAM_SPRITE_COUNT - 1) :
          /\ p.sprites[i].ypos = OamRaw(p, 4 * i)
          /\ p.sprites[i].xpos = OamRaw(p, 4 * i + 1)
          /\ p.sprites[i].tile = OamRaw(p, 4 * i + 2)
          /\ p.sprites[i].behind_background = (Bit(OamRaw(p, 4 * i + 3), 7) = 1)
          /\ p.sprites[i].yflip = (Bit(OamRaw(p, 4 * i + 3), 6) = 1)
          /\ p.sprites[i].xflip = (Bit(OamRaw(p, 4 * i + 3), 5) = 1)
          /\ p.sprites[i].palette = (Bit(OamRaw(p, 4 * i + 3), 4) = 1)
    /\ \A k \in 0..(OAM_RAM_SIZE - 1) : OamRaw(p, k) = p.sprite_data[k]

(* C2: in every state bus writes into OAM and OAM DMA transfers reach,     *)
(* every decoded sprite agrees with its four raw bytes (ypos, xpos, tile,  *)
(* and bits 7, 6, 5, 4 of the attribute byte), and read8(0xFE00+k) returns *)
(* raw byte k.                                                             *)
C2_OamCoherence == OamCoherent(ppu)

(* C2, witness: an attribute byte 0xA0 written over entry 0 after a DMA    *)
(* transfer from a page mapped in its first 128 bytes.                     *)
C2_Witness ==
    /\ op.name = "write8"
    /\ op.addr = OAM_START_ADDRESS + 3
    /\ ppu.sprites[0].behind_background
    /\ ppu.sprites[0].xflip
    /\ ~ppu.sprites[0].yflip
    /\ ppu.sprites[1].ypos = 4
    /\ ppu.sprites[OAM_SPRITE_COUNT - 1].palette
    /\ OamRaw(ppu, OAM_RAM_SIZE - 1) = 255

(* The first execute_ticks call after a write of v to 0xFF46 leaves in OAM *)
(* what the bus returns at (v << 8) + i when the call is made.             *)
DmaCopied ==
    (op'.name = "execute_ticks" /\ staged # <<>>) =>
        \A i \in 0..(OAM_RAM_SIZE - 1) :
            OamRaw(ppu', i) = Bus_bus_read8(bus, ram, staged[1] * 256 + i)

DmaTriggerKeepsOam ==
    (op'.name = "write8" /\ op'.addr = OAM_DMA_REGISTER_ADDRESS) =>
        /\ \A i \in 0..(OAM_RAM_SIZE - 1) : OamRaw(ppu', i) = OamRaw(ppu, i)
        /\ ppu'.sprites = ppu.sprites

(* C3: after write8(0xFF46, v) the first following execute_ticks call,     *)
(* whatever its tick count and whether or not the LCD is enabled, leaves   *)
(* OAM raw byte i equal to what the bus returns for read8((v << 8) + i) at *)
(* the time of the call, for every i in 0..159; the trigger write itself   *)
(* leaves OAM unchanged.                                                   *)
C3_DmaCopy == [][DmaCopied /\ DmaTriggerKeepsOam]_vars

(* C3, witness: a call of zero ticks with the LCD on has copied page 0x01, *)
(* mapped in its first 128 bytes, after 0xF0 was written to 0x0103.        *)
C3_Witness ==
    /\ op.name = "execute_ticks"
    /\ op.arg = 0
    /\ ppu.lcd_enabled
    /\ ppu.oam_dma_src = 256
    /\ OamRaw(ppu, 3) = 240
    /\ OamRaw(ppu, 127) = 127
    /\ OamRaw(ppu, 128) = 255
    /\ OamRaw(ppu, OAM_RAM_SIZE - 1) = 255

Min(a, b) == IF a < b THEN a ELSE b

(* C4: every execute_ticks(n) call takes oam_dma_ticks from d to            *)
(* d - min(n, d), with the LCD enabled or not: it never underflows and     *)
(* stays at 0 once there.                                                  *)
C4_DmaCountdown ==
    [][op'.name = "execute_ticks" =>
          /\ ppu.oam_dma_ticks \in 0..OAM_DMA_TRANSFER_TICKS
          /\ ppu'.oam_dma_ticks = ppu.oam_dma_ticks - Min(op'.arg, ppu.oam_dma_ticks)]_vars

(* C4, witness: the LCD is off and a call of 152 ticks has left 8 of the   *)
(* 160 ticks of a transfer.                                                *)
C4_Witness ==
    /\ op.name = "execute_ticks"
    /\ op.arg = 152
    /\ ~ppu.lcd_enabled
    /\ ppu.oam_dma_ticks = OAM_DMA_TRANSFER_TICKS - 152

(* A write of v to 0xFF46 stages a transfer from v << 8; any other         *)
(* operation leaves what 0xFF46 reads.                                     *)
DmaStaged ==
    IF op'.name = "write8" /\ op'.addr = OAM_DMA_REGISTER_ADDRESS
    THEN /\ ppu'.oam_dma_src = op'.arg * 256
         /\ ppu'.oam_dma_ticks = OAM_DMA_TRANSFER_TICKS
         /\ PPU_bus_read8(ppu', OAM_DMA_REGISTER_ADDRESS) = op'.arg
    ELSE PPU_bus_read8(ppu', OAM_DMA_REGISTER_ADDRESS) =
            PPU_bus_read8(ppu, OAM_DMA_REGISTER_ADDRESS)

(* C5: write8(0xFF46, v) sets oam_dma_src to v << 8 and oam_dma_ticks to   *)
(* 160 in any state, also while an earlier transfer is counting down, and  *)
(* read8(0xFF46) returns v afterwards.                                     *)
C5_DmaStaging == [][DmaStaged]_vars

(* C5, witness: page 0x02 staged after a transfer from page 0x01 has       *)
(* copied its bytes.                                                       *)
C5_Witness ==
    /\ op.name = "write8"
    /\ op.addr = OAM_DMA_REGISTER_ADDRESS
    /\ op.arg = 2
    /\ ppu.oam_dma_src = 512
    /\ ppu.oam_dma_ticks = OAM_DMA_TRANSFER_TICKS
    /\ OamRaw(ppu, 127) = 127

(* C6: in every state bus writes (writes to LYC among them) and            *)
(* execute_ticks calls reach from reset, bit 2 of read8(0xFF41) is 1       *)
(* exactly when read8(0xFF44) = read8(0xFF45), that is when                *)
(* line_y = line_compare_value.                                            *)
C6_LineCompareFlag ==
    (Bit(PPU_bus_read8(ppu, LCDS_ADDRESS), 2) = 1)
        <=> (PPU_bus_read8(ppu, LY_ADDRESS) = PPU_bus_read8(ppu, LYC_ADDRES))

(* What read8(0xFF41) returns for the enable bits v wrote and the flag and *)
(* the mode of PPU p.                                                      *)
LcdsExpected(v, p) ==
    BitOr(BitOr(BitAnd(v, 120), 4 * BoolU8(p.line_compare)), p.mode)

LcdsReadAfterWrite ==
    (op'.name = "write8" /\ op'.addr = LCDS_ADDRESS) =>
        /\ PPU_bus_read8(ppu', LCDS_ADDRESS) = LcdsExpected(op'.arg, ppu)
        /\ ppu'.line_compare = ppu.line_compare
        /\ ppu'.mode = ppu.mode

(* C7: after write8(0xFF41, v) the next read8(0xFF41) returns              *)
(* (v & 0x78) | (line_compare << 2) | mode with the flag and the mode the  *)
(* PPU had before the write, which changes neither; bit 7 reads 0 in every *)
(* state.                                                                  *)
C7_LcdsReadAfterWrite ==
    /\ [](Bit(PPU_bus_read8(ppu, LCDS_ADDRESS), 7) = 0)
    /\ [][LcdsReadAfterWrite]_vars

(* C7, witness: 0xFF written on line 1 = LYC during the LCD transfer reads *)
(* back as 0x7F.                                                           *)
C7_Witness ==
    /\ op.name = "write8"
    /\ op.addr = LCDS_ADDRESS
    /\ op.arg = 255
    /\ ppu.line_compare
    /\ ppu.mode = LCD_TRANSFER
    /\ PPU_bus_read8(ppu, LCDS_ADDRESS) = 127

(* The fields of the PPU the DMA engine owns.                              *)
DmaFields == {"oam_dma_ticks", "oam_dma_src", "sprites", "sprite_data"}

LcdOffFrozen ==
    (op'.name = "execute_ticks" /\ ~ppu.lcd_enabled) =>
        /\ ppu'.line_y = ppu.line_y
        /\ ppu'.tick_counter = ppu.tick_counter
        /\ ppu'.mode = ppu.mode
        /\ ppu'.line_compare = ppu.line_compare
        /\ \A f \in (DOMAIN ppu) \ DmaFields : ppu'[f] = ppu[f]
        /\ ~is'.vblank
        /\ ~is'.lcdstat
        /\ ~panicked'

(* C8: while lcd_enabled is false, execute_ticks(n) leaves line_y,         *)
(* tick_counter, mode and the line-compare flag unchanged for every n and  *)
(* requests neither V-blank nor LCD-STAT, whatever the STAT enable bits    *)
(* are; only the DMA state and OAM may change.                             *)
C8_LcdDisabledFreezes == [][LcdOffFrozen]_vars

(* C8, witness: 65535 ticks with the LCD switched off on line 143, short   *)
(* of the end of the line, with every STAT source enabled.                 *)
C8_Witness ==
    /\ op.name = "execute_ticks"
    /\ op.arg = 65535
    /\ ~ppu.lcd_enabled
    /\ ppu.line_y = LCD_LINE_VBLANK_START - 1
    /\ ppu.tick_counter = 304
    /\ ppu.mode = HBLANK
    /\ ppu.line_compare_is /\ ppu.mode2_is /\ ppu.mode1_is /\ ppu.mode0_is

(* The call took line_y from 143 to 144.                                   *)
EntersVblank ==
    ppu.line_y = LCD_LINE_VBLANK_START - 1 /\ ppu'.line_y = LCD_LINE_VBLANK_START

OnlyMode1Source(p) == ~p.line_compare_is /\ ~p.mode0_is /\ ~p.mode2_is

VblankRequest ==
    (op'.name = "execute_ticks" /\ ppu.lcd_enabled /\ ~panicked') =>
        /\ is'.vblank <=> EntersVblank
        /\ EntersVblank =>
              /\ ppu'.mode = VBLANK
              /\ ppu.mode1_is => is'.lcdstat
              /\ OnlyMode1Source(ppu) => (is'.lcdstat <=> ppu.mode1_is)

(* C9: with the LCD enabled, an execute_ticks call requests V-blank if and *)
(* only if it takes line_y from 143 to 144; in that call mode becomes      *)
(* VBLANK and, the other STAT sources being disabled, LCD-STAT is          *)
(* requested if and only if mode1_is is set.                               *)
C9_VblankRequest == [][VblankRequest]_vars

(* C9, witness: the call that entered line 144 with mode 1 the only STAT   *)
(* source has requested both interrupts.                                   *)
C9_Witness ==
    /\ op.name = "execute_ticks"
    /\ ppu.line_y = LCD_LINE_VBLANK_START
    /\ ppu.mode = VBLANK
    /\ ppu.mode1_is
    /\ OnlyMode1Source(ppu)
    /\ is.vblank
    /\ is.lcdstat

OnlyLineCompareSource(p) ==
    p.line_compare_is /\ ~p.mode0_is /\ ~p.mode1_is /\ ~p.mode2_is

LyCompareStat ==
    (op'.name = "execute_ticks" /\ ppu.lcd_enabled /\ OnlyLineCompareSource(ppu)
        /\ ~panicked') =>
        (is'.lcdstat <=>
            /\ ppu'.line_y # ppu.line_y
            /\ PPU_bus_read8(ppu', LY_ADDRESS) = PPU_bus_read8(ppu', LYC_ADDRES))

(* C10: with the LCD enabled and line_compare_is the only enabled STAT     *)
(* source, an execute_ticks call requests LCD-STAT if and only if it       *)
(* starts a new line and the line_y read at 0xFF44 after the call equals   *)
(* line_compare_value, on every line 0..153, the line 0 that starts a      *)
(* frame among them.                                                       *)
C10_LyCompareStat == [][LyCompareStat]_vars

OnlyMode0Source(p) ==
    p.mode0_is /\ ~p.line_compare_is /\ ~p.mode1_is /\ ~p.mode2_is

HblankStat ==
    (op'.name = "execute_ticks" /\ op'.arg <= 80 /\ ppu.lcd_enabled
        /\ OnlyMode0Source(ppu) /\ ~panicked') =>
        (is'.lcdstat <=> (ppu.mode # HBLANK /\ ppu'.mode = HBLANK))

(* C11: with the LCD enabled, mode0_is the only enabled STAT source and    *)
(* calls of at most 80 ticks, a call requests LCD-STAT if and only if mode *)
(* was not HBLANK before it and is HBLANK after it; a call that finds and  *)
(* leaves HBLANK requests nothing.                                         *)
C11_HblankStat == [][HblankStat]_vars

(* C11, witness: the call of 4 ticks that reached tick 252 of line 1 has   *)
(* entered HBLANK and requested LCD-STAT.                                  *)
C11_Witness ==
    /\ op.name = "execute_ticks"
    /\ op.arg = 4
    /\ OnlyMode0Source(ppu)
    /\ ppu.line_y = 1
    /\ ppu.tick_counter = 252
    /\ ppu.mode = HBLANK
    /\ is.lcdstat

SpriteSearchStat ==
    (op'.name = "execute_ticks" /\ op'.arg <= 80 /\ ppu.lcd_enabled /\ ppu.mode2_is
        /\ ppu.mode # SPRITE_SEARCH /\ ppu'.mode = SPRITE_SEARCH /\ ~panicked') =>
        is'.lcdstat

(* C12: with the LCD enabled and mode2_is set, every call of at most 80    *)
(* ticks that takes mode from HBLANK or VBLANK to SPRITE_SEARCH requests   *)
(* LCD-STAT, the entry into SPRITE_SEARCH on line 0 of a new frame         *)
(* included.                                                               *)
C12_SpriteSearchStat == [][SpriteSearchStat]_vars

InLineMode ==
    (op.name = "execute_ticks" /\ ppu.lcd_enabled /\ ~panicked
        /\ ppu.line_y < LCD_LINE_VBLANK_START) =>
        /\ ppu.tick_counter \in 0..79 => ppu.mode = SPRITE_SEARCH
        /\ ppu.tick_counter \in 80..251 => ppu.mode = LCD_TRANSFER
        /\ ppu.tick_counter >= 252 => ppu.mode = HBLANK

(* C13: after every execute_ticks call made with the LCD enabled that      *)
(* leaves line_y < 144, mode is SPRITE_SEARCH when tick_counter is in      *)
(* 0..79, LCD_TRANSFER when it is in 80..251 and HBLANK when it is 252 or  *)
(* more.                                                                   *)
C13_InLineMode == InLineMode

(* C13, witness: a call has left tick 80 of line 143, the first tick of    *)
(* the LCD transfer.                                                       *)
C13_Witness ==
    /\ op.name = "execute_ticks"
    /\ ppu.lcd_enabled
    /\ ppu.line_y = LCD_LINE_VBLANK_START - 1
    /\ ppu.tick_counter = 80
    /\ ppu.mode = LCD_TRANSFER

(* The positions in the item list b of the items whose inclusive range    *)
(* holds addr, and the item registered earliest among them.                *)
Covering(b, addr) ==
    {k \in 1..Len(b) : b[k].start_addr <= addr /\ addr <= b[k].end_addr}

Earliest(b, addr) ==
    b[CHOOSE k \in Covering(b, addr) : \A j \in Covering(b, addr) : k <= j]

(* Every covered address reads from the device of its earliest item.      *)
ReadsRouteFirst ==
    \A a \in BusAddrs :
        Covering(bus, a) # {} =>
            Bus_bus_read8(bus, ram, a) = ram[Earliest(bus, a).item][a]

RoutingStep ==
    /\ (op'.name = "bus_write8" /\ Covering(bus, op'.addr) # {}) =>
            ram' = [ram EXCEPT ![Earliest(bus, op'.addr).item][op'.addr] = op'.arg]
    /\ (op'.name = "bus_read8" /\ Covering(bus, op'.addr) # {}) =>
            op'.arg = ram[Earliest(bus, op'.addr).item][op'.addr]
    /\ op'.name = "add_item" =>
            \A a \in BusAddrs :
                Covering(bus, a) # {} =>
                    /\ get_item(bus', a) = <<Earliest(bus, a)>>
                    /\ Bus_bus_read8(bus', ram', a) = Bus_bus_read8(bus, ram, a)

(* C14: for any sequence of add_item calls, overlapping ranges included,   *)
(* read8(addr) and write8(addr, v) go to exactly the earliest registered   *)
(* item whose inclusive range holds addr, and a later add_item never       *)
(* changes which device serves an address an earlier item covers.          *)
C14_FirstMatchRouting == []ReadsRouteFirst /\ [][RoutingStep]_vars

(* C14, witness: 0x017F lies in all three ranges; the binding of device 2  *)
(* was registered first, and the write went to device 2 alone.             *)
C14_Witness ==
    /\ op.name = "bus_write8"
    /\ op.addr = 383
    /\ Len(bus) = 3
    /\ bus[1].item = 2
    /\ ram[2][383] = 165
    /\ ram[1][383] = 127

OpenBusRead ==
    \A a \in BusAddrs :
        Covering(bus, a) = {} =>
            get_item(bus, a) = <<>> /\ Bus_bus_read8(bus, ram, a) = 255

OpenBusStep ==
    (op'.name = "bus_read8" /\ Covering(bus, op'.addr) = {}) =>
        /\ op'.arg = 255
        /\ ram' = ram
        /\ bus' = bus
        /\ ~panicked'

(* C15: read8(addr) on the bus returns 0xFF for every addr in no           *)
(* registered range, on an empty bus too, and touches no device.           *)
C15_OpenBusRead == []OpenBusRead /\ [][OpenBusStep]_vars

(* C15, witness: 0x0183 read with all three bindings registered.           *)
C15_Witness ==
    /\ op.name = "bus_read8"
    /\ op.addr = 387
    /\ op.arg = 255
    /\ Len(bus) = 3
    /\ Covering(bus, 387) = {}

WriteFrame ==
    op'.name = "bus_write8" =>
        /\ bus' = bus
        /\ ~panicked'
        /\ IF Covering(bus, op'.addr) = {}
           THEN ram' = ram
           ELSE \A d \in DevIds :
                   d # Earliest(bus, op'.addr).item => ram'[d] = ram[d]

(* C16: write8(addr, v) on the bus with addr in no registered range leaves *)
(* every device and the item list unchanged and raises no error; a mapped  *)
(* write changes only the device it is routed to.                          *)
C16_UnmappedWriteDropped == [][WriteFrame]_vars

(* C16, witness: a write to 0x0183 with all three bindings registered has  *)
(* reached neither device.                                                 *)
C16_Witness ==
    /\ op.name = "bus_write8"
    /\ op.addr = 387
    /\ op.arg = 165
    /\ Len(bus) = 3
    /\ ram[1][387] = 131
    /\ ram[2][387] = 0

Read16Composed ==
    /\ \A a \in BusAddrs16 :
          Bus_bus_read16(bus, ram, a) =
              Bus_bus_read8(bus, ram, a) + 256 * Bus_bus_read8(bus, ram, a + 1)
    /\ PPU_bus_read16(ppu, SCY_ADDRESS) =
          PPU_bus_read8(ppu, SCY_ADDRESS) + 256 * PPU_bus_read8(ppu, SCY_ADDRESS + 1)

Access16Step ==
    /\ op'.name = "bus_write16" =>
          ram' = Bus_bus_write8(bus, Bus_bus_write8(bus, ram, op'.addr, BitAnd(op'.arg, 255)),
                                op'.addr + 1, op'.arg \div 256)
    /\ op'.name = "bus_read16" =>
          op'.arg = Bus_bus_read8(bus, ram, op'.addr)
                    + 256 * Bus_bus_read8(bus, ram, op'.addr + 1)
    /\ op'.name = "write16" =>
          ppu' = PPU_bus_write8(PPU_bus_write8(ppu, op'.addr, BitAnd(op'.arg, 255)),
                                op'.addr + 1, op'.arg \div 256)
    /\ op'.name = "read16" =>
          op'.arg = PPU_bus_read8(ppu, op'.addr) + 256 * PPU_bus_read8(ppu, op'.addr + 1)

(* C17: on the bus and on the PPU read16(a) is read8(a) | (read8(a+1) << 8) *)
(* and write16(a, v) has the effect of write8(a, v & 0xFF) followed by     *)
(* write8(a+1, v >> 8); on the bus each byte is routed by its own address, *)
(* so an access across two devices, or across a mapped and an unmapped     *)
(* address, splits.                                                        *)
C17_LittleEndian16 == []Read16Composed /\ [][Access16Step]_vars

(* C17, witness: write16(0x017F, 0x1234) has put 0x34 into device 1 at     *)
(* 0x017F and 0x12 into device 2 at 0x0180.                                *)
C17_Witness ==
    /\ op.name = "bus_write16"
    /\ op.addr = 383
    /\ op.arg = 4660
    /\ Covering(bus, 383) # {}
    /\ Covering(bus, 384) # {}
    /\ Earliest(bus, 383).item = 1
    /\ Earliest(bus, 384).item = 2
    /\ ram[1][383] = 52
    /\ ram[2][384] = 18
    /\ ram[1][384] = 128

(* The decoded entry of four raw bytes 0xFF.                               *)
SpriteAllOnes ==
    [ypos |-> 255, xpos |-> 255, tile |-> 255,
     behind_background |-> TRUE, xflip |-> TRUE, yflip |-> TRUE, palette |-> TRUE]

UnmappedDma ==
    (/\ op'.name = "execute_ticks"
     /\ staged # <<>>
     /\ \A i \in 0..(OAM_RAM_SIZE - 1) : Covering(bus, staged[1] * 256 + i) = {}) =>
        /\ \A k \in 0..(OAM_RAM_SIZE - 1) : OamRaw(ppu', k) = 255
        /\ \A i \in 0..(OAM_SPRITE_COUNT - 1) : ppu'.sprites[i] = SpriteAllOnes
        /\ ~panicked'

(* C18: if no bus item covers any address in [v << 8, (v << 8) + 159],     *)
(* then after write8(0xFF46, v) and one execute_ticks call all 160 raw     *)
(* bytes of OAM are 0xFF and every decoded entry has ypos = xpos = tile =  *)
(* 0xFF and its four flags true; no error is raised.                       *)
C18_UnmappedDma == [][UnmappedDma]_vars

(* C18, witness: page 0x02 copied by a call of 152 ticks while the binding *)
(* of page 0x01 is registered.                                             *)
C18_Witness ==
    /\ op.name = "execute_ticks"
    /\ Len(bus) = 1
    /\ ppu.oam_dma_src = 512
    /\ ppu.oam_dma_ticks = OAM_DMA_TRANSFER_TICKS - 152
    /\ \A i \in 0..(OAM_SPRITE_COUNT - 1) : ppu.sprites[i] = SpriteAllOnes
    /\ OamRaw(ppu, 3) = 255

LcdcDecoded ==
    /\ op.name = "new" => PPU_bus_read8(ppu, LCDC_ADDRESS) = 0
    /\ ppu.lcd_enabled = (Bit(PPU_bus_read8(ppu, LCDC_ADDRESS), 7) = 1)
    /\ ppu.window_tiles_high = (Bit(PPU_bus_read8(ppu, LCDC_ADDRESS), 6) = 1)
    /\ ppu.window_enabled = (Bit(PPU_bus_read8(ppu, LCDC_ADDRESS), 5) = 1)
    /\ ppu.bg_window_signed_addressing = (Bit(PPU_bus_read8(ppu, LCDC_ADDRESS), 4) = 1)
    /\ ppu.bg_tiles_high = (Bit(PPU_bus_read8(ppu, LCDC_ADDRESS), 3) = 1)
    /\ ppu.obj_double_sprites = (Bit(PPU_bus_read8(ppu, LCDC_ADDRESS), 2) = 1)
    /\ ppu.obj_enabled = (Bit(PPU_bus_read8(ppu, LCDC_ADDRESS), 1) = 1)
    /\ ppu.bg_window_enable = (Bit(PPU_bus_read8(ppu, LCDC_ADDRESS), 0) = 1)

LcdcLastWritten ==
    PPU_bus_read8(ppu', LCDC_ADDRESS) =
        IF op'.name = "write8" /\ op'.addr = LCDC_ADDRESS THEN op'.arg
        ELSE PPU_bus_read8(ppu, LCDC_ADDRESS)

(* C19: in every reachable state read8(0xFF40) returns the last byte       *)
(* written to 0xFF40, 0 at reset, and the eight flags are its bits, from   *)
(* lcd_enabled = bit 7 down to bg_window_enable = bit 0.                   *)
C19_LcdcDecode == []LcdcDecoded /\ [][LcdcLastWritten]_vars

(* C19, witness: 0x55 was written to LCDC and a palette write came after.  *)
C19_Witness ==
    /\ op.name = "write8"
    /\ op.addr = BG_PALETTE_ADDRESS
    /\ PPU_bus_read8(ppu, LCDC_ADDRESS) = 85
    /\ ~ppu.lcd_enabled
    /\ ppu.window_tiles_high
    /\ ppu.obj_double_sprites
    /\ ~ppu.obj_enabled
    /\ ppu.bg_window_enable

PaletteAt(p, addr) ==
    CASE addr = BG_PALETTE_ADDRESS -> p.bg_palette
      [] addr = OBJ_PALETTE1_ADDRESS -> p.obj_palette1
      [] addr = OBJ_PALETTE2_ADDRESS -> p.obj_palette2

PaletteWritten ==
    (op'.name = "write8" /\ op'.addr \in PaletteAddrs) =>
        /\ PPU_bus_read8(ppu', op'.addr) = op'.arg
        /\ \A i \in 0..3 :
              PaletteAt(ppu', op'.addr).table[i] = (op'.arg \div (2 ^ (2 * i))) % 4
        /\ \A a \in PaletteAddrs \ {op'.addr} :
              /\ PaletteAt(ppu', a) = PaletteAt(ppu, a)
              /\ PPU_bus_read8(ppu', a) = PPU_bus_read8(ppu, a)

(* C20: for each palette register 0xFF47, 0xFF48, 0xFF49, after            *)
(* write8(addr, v) read8(addr) is v and table[i] is (v >> 2i) & 3 for i in *)
(* 0..3, and the other two palettes are unchanged.                         *)
C20_PaletteDecode == [][PaletteWritten]_vars

(* C20, witness: 0x1B written to the first object palette, the other two   *)
(* holding 0xE4 and 0xFF.                                                  *)
C20_Witness ==
    /\ op.name = "write8"
    /\ op.addr = OBJ_PALETTE1_ADDRESS
    /\ op.arg = 27
    /\ ppu.obj_palette1.table = [i \in 0..3 |-> 3 - i]
    /\ ppu.bg_palette.raw = 228
    /\ ppu.bg_palette.table = [i \in 0..3 |-> i]
    /\ ppu.obj_palette2.raw = 255

LyWriteDead ==
    (op'.name = "write8" /\ op'.addr = LY_ADDRESS) =>
        /\ ~panicked'
        /\ ppu' = ppu
        /\ PPU_bus_read8(ppu', LY_ADDRESS) = PPU_bus_read8(ppu, LY_ADDRESS)

(* C21: a write8 of any value to 0xFF44 leaves line_y and every other      *)
(* field of the PPU unchanged, and read8(0xFF44) returns the same value    *)
(* before and after it.                                                    *)
C21_LyReadOnly == [][LyWriteDead]_vars

(* C21, witness: 0 has been written to LY on line 153 while a DMA transfer *)
(* was staged, and line_y is still 153.                                    *)
C21_Witness ==
    /\ op.name = "write8"
    /\ op.addr = LY_ADDRESS
    /\ op.arg = 0
    /\ ppu.line_y = LCD_LINE_VBLANK_END
    /\ ppu.mode = VBLANK
    /\ ppu.oam_dma_ticks = OAM_DMA_TRANSFER_TICKS

(* A change of line_y is a step to the next line of the 154.               *)
NextLine ==
    (op'.name = "execute_ticks" /\ ppu'.line_y # ppu.line_y) =>
        ppu'.line_y = (ppu.line_y + 1) % (LCD_LINE_VBLANK_END + 1)

VblankSpacing ==
    (op.name = "execute_ticks" /\ is.vblank) =>
        /\ ppu.line_y = LCD_LINE_VBLANK_START
        /\ frame.last_line = LCD_LINE_VBLANK_START - 1
        /\ frame.last_since # -1 => frame.last_since + 1 = LCD_LINE_VBLANK_END + 1

(* C22: V-blank is requested at most once per pass of line_y through       *)
(* 0..153, and a call that requests V-blank after an earlier request makes *)
(* the 154th change of line_y since that request, each change a step to    *)
(* the next line (144, ..., 153, 0, ..., 143, 144), for calls of any tick  *)
(* count.                                                                  *)
C22_VblankOncePerFrame ==
    [](frame.pass_vblanks <= 1) /\ []VblankSpacing /\ [][NextLine]_vars

(* C22, witness: a call has requested V-blank 154 line changes after the   *)
(* request before it.                                                      *)
C22_Witness ==
    /\ op.name = "execute_ticks"
    /\ is.vblank
    /\ frame.last_since = LCD_LINE_VBLANK_END
    /\ frame.since_vblank = 0
    /\ frame.pass_vblanks = 1
    /\ ppu.line_y = LCD_LINE_VBLANK_START

(* C23: after every execute_ticks call, for every tick count of a u16,     *)
(* tick_counter is in 0..455.                                              *)
C23_TickCounterWraps ==
    (op.name = "execute_ticks" /\ ~panicked) =>
        ppu.tick_counter \in 0..(LCD_TICKS_PER_LINE - 1)

LineRange == ppu.line_y \in 0..LCD_LINE_VBLANK_END

(* The last operation was an execute_ticks call that changed line_y from   *)
(* 153.                                                                    *)
LeftLastLine ==
    /\ op.name = "execute_ticks"
    /\ ~panicked
    /\ frame.last_line = LCD_LINE_VBLANK_END
    /\ ppu.line_y # LCD_LINE_VBLANK_END

(* C24 as stated: line_y is in 0..153 in every reachable state, and a line *)
(* advance from 153 yields line_y = 0 with mode SPRITE_SEARCH.             *)
C24_LineWrapSpriteSearch ==
    /\ LineRange
    /\ LeftLastLine => (ppu.line_y = 0 /\ ppu.mode = SPRITE_SEARCH)

(* C24, amended: line_y is in 0..153 in every reachable state, and a line  *)
(* advance from 153 yields line_y = 0 with the mode of the tick count the  *)
(* call leaves: SPRITE_SEARCH for 0..79, LCD_TRANSFER for 80..251, HBLANK  *)
(* from 252 on.                                                            *)
C24_LineWrap ==
    /\ LineRange
    /\ LeftLastLine =>
          /\ ppu.line_y = 0
          /\ ppu.tick_counter \in 0..79 => ppu.mode = SPRITE_SEARCH
          /\ ppu.tick_counter \in 80..251 => ppu.mode = LCD_TRANSFER
          /\ ppu.tick_counter >= 252 => ppu.mode = HBLANK

(* C24, witness: a call of one line of ticks made at tick 152 of line 153  *)
(* has started line 0 in the LCD transfer.                                 *)
C24_Witness ==
    /\ op.name = "execute_ticks"
    /\ op.arg = LCD_TICKS_PER_LINE
    /\ ~panicked
    /\ frame.last_line = LCD_LINE_VBLANK_END
    /\ ppu.line_y = 0
    /\ ppu.tick_counter = 152
    /\ ppu.mode = LCD_TRANSFER

ModeStep(a, b) == ppu.mode = a /\ ppu'.mode = b

(* The five mode changes of the cycle.                                     *)
ModeCycleStep ==
    \/ ModeStep(SPRITE_SEARCH, LCD_TRANSFER)
    \/ ModeStep(LCD_TRANSFER, HBLANK)
    \/ ModeStep(HBLANK, SPRITE_SEARCH)
    \/ ModeStep(HBLANK, VBLANK) /\ ppu'.line_y = LCD_LINE_VBLANK_START
    \/ ModeStep(VBLANK, SPRITE_SEARCH) /\ ppu'.line_y = 0

(* A call made with the LCD enabled that advances 1 to 80 ticks and        *)
(* changes the mode.                                                       *)
ModeChangingCall ==
    /\ op'.name = "execute_ticks"
    /\ op'.arg \in 1..80
    /\ ppu.lcd_enabled
    /\ ~panicked'
    /\ ppu'.mode # ppu.mode

(* The call is made in the state PPU::new leaves (HBLANK at tick 0 of line *)
(* 0 of the first frame) and advances 80 ticks.                            *)
FirstCallOf80 ==
    /\ op'.arg = 80
    /\ ppu.tick_counter = 0
    /\ ppu.line_y = 0
    /\ frame.since_vblank = -1

(* C25 as stated: from reset with the LCD enabled and calls of 1 to 80     *)
(* ticks, the only mode changes are SPRITE_SEARCH to LCD_TRANSFER,         *)
(* LCD_TRANSFER to HBLANK, HBLANK to SPRITE_SEARCH, HBLANK to VBLANK (line *)
(* 144) and VBLANK to SPRITE_SEARCH (new frame): no mode is skipped.       *)
C25_ModeOrder == [][ModeChangingCall => ModeCycleStep]_vars

(* C25, amended: the only mode changes are the five of the cycle and, on   *)
(* the first call after reset when it advances 80 ticks, HBLANK to         *)
(* LCD_TRANSFER.                                                           *)
C25_ModeOrderFromReset ==
    [][ModeChangingCall =>
          (ModeCycleStep \/ (ModeStep(HBLANK, LCD_TRANSFER) /\ FirstCallOf80))]_vars

(* C25, witness: the first call after reset advanced 80 ticks and left the *)
(* HBLANK of PPU::new for LCD_TRANSFER.                                    *)
C25_Witness ==
    /\ op.name = "execute_ticks"
    /\ op.arg = 80
    /\ ppu.lcd_enabled
    /\ ppu.line_y = 0
    /\ ppu.tick_counter = 80
    /\ frame.since_vblank = -1
    /\ ppu.mode = LCD_TRANSFER

(* C26: every address that read8 or write8 of the PPU dispatches to the    *)
(* OAM arm lies in 0xFE00..0xFE9F, its entry index is in 0..39 and its raw *)
(* offset in 0..159, and the access does not abort.                        *)
C26_OamInBounds ==
    (op.name \in {"read8", "write8"} /\ InOam(op.addr)) =>
        /\ op.addr \in 65024..65183
        /\ (op.addr - OAM_START_ADDRESS) \div OAM_SPRITE_SIZE \in 0..(OAM_SPRITE_COUNT - 1)
        /\ op.addr - OAM_START_ADDRESS \in 0..(OAM_RAM_SIZE - 1)
        /\ ~panicked

(* C27: in every state reachable from reset by bus writes and              *)
(* execute_ticks calls, the LCD switched off and on again among them, mode *)
(* is VBLANK if and only if line_y is in 144..153.                         *)
C27_ModeLineConsistency ==
    (ppu.mode = VBLANK) <=> (ppu.line_y \in LCD_LINE_VBLANK_START..LCD_LINE_VBLANK_END)

(* C27, witness: the LCD was switched off on line 144 and a call made      *)
(* since; mode is still VBLANK.                                            *)
C27_Witness ==
    /\ op.name = "execute_ticks"
    /\ op.arg = 65384
    /\ ~ppu.lcd_enabled
    /\ ppu.line_y = LCD_LINE_VBLANK_START
    /\ ppu.mode = VBLANK

(* An execute_ticks call that is not the first one after a write to 0xFF46 *)
(* leaves OAM as it finds it.                                              *)
NoRepeatedCopy ==
    (op'.name = "execute_ticks" /\ staged = <<>>) =>
        /\ ppu'.sprite_data = ppu.sprite_data
        /\ ppu'.sprites = ppu.sprites

(* C28: for each write to 0xFF46 the 160-byte copy is performed by the     *)
(* first execute_ticks call after the write, for every tick count          *)
(* including 0, and by no later call: until 0xFF46 is written again no     *)
(* call overwrites OAM, whatever was written to the source or to OAM in    *)
(* between.                                                                *)
C28_OneCopyPerTrigger == [][DmaCopied /\ NoRepeatedCopy]_vars

VblankRequested == op.name = "execute_ticks" /\ is.vblank

(* C29: while the LCD stays enabled and execute_ticks is called again and  *)
(* again with 1 to 456 ticks, from every reachable state V-blank is        *)
(* eventually requested and line_y eventually returns to 0 after it; so    *)
(* V-blank is requested infinitely often.                                  *)
C29_FrameProgress ==
    /\ ppu.lcd_enabled ~> VblankRequested
    /\ VblankRequested ~> (ppu.line_y = 0)
    /\ <>ppu.lcd_enabled => []<>VblankRequested

(* C29, witness: with the LCD enabled line_y is back at 0, 10 line changes *)
(* after a V-blank request.                                                *)
C29_Witness ==
    /\ op.name = "execute_ticks"
    /\ ppu.lcd_enabled
    /\ ppu.line_y = 0
    /\ frame.last_line = LCD_LINE_VBLANK_END
    /\ frame.since_vblank = 10
    /\ frame.pass_vblanks = 0

============================================================================
